---- MODULE Spec2Model ----
(***************************************************************************)
(* A model of src/main.py: the FastAPI handlers /connect, /search and      *)
(* /disconnect of the CIPC BizPortal automation service, with the session  *)
(* registry _sessions and the Playwright resources (driver, browser,       *)
(* context, tabs) they own.                                                *)
(*                                                                         *)
(* Handlers are coroutines on one event loop: a handler runs without       *)
(* interruption between two awaits and may be interleaved with other       *)
(* handlers at every await.  One action of the model is one awaited call   *)
(* (or one group of awaited calls on the request's own tab) taking effect, *)
(* with the synchronous code around it; the synchronous code that reads or *)
(* writes the registry (lookup, registration, del) is an action of its     *)
(* own.  The outcome of an awaited browser call is an input drawn with \E: *)
(* "ok", "timeout" (PlaywrightTimeout) or "error" (any other Exception).   *)
(* A call on a tab whose browser has been closed always raises "error".    *)
(* page.close() always completes, and so do browser.close() and pw.stop()  *)
(* on the browser a /connect has just launched itself (Playwright swallows *)
(* target-closed errors in close()); in /disconnect, which tears down a    *)
(* long-lived session inside a try, either call may raise.                 *)
(* A request that has produced its response stays at "done" until the      *)
(* framework has sent it (the reply action).                               *)
(***************************************************************************)
EXTENDS Naturals, Sequences, FiniteSets

\* ------------------------------------------------------------ bounds
MaxConnects    == 2   \* /connect requests (each gets a fresh token)
MaxSearches    == 2   \* /search request slots (reused by later requests)
MaxDisconnects == 2   \* /disconnect request slots (reused)
MaxActive      == 2   \* requests in flight at the same time
MaxLen         == 2   \* length of an error banner's text
MaxRows        == 2   \* body rows of the enterprise table
MaxFaults      == 1   \* sections of one /search not extracted in full
MaxSrcLen      == 4   \* length of an icon's src, in pieces
MaxDateLen     == 6   \* length of a date text
MaxFieldLen    == 3   \* length of a label's text, in pieces

ConnIds == 1..MaxConnects
SeaIds  == 1..MaxSearches
DisIds  == 1..MaxDisconnects

\* uuid4 tokens: the token of /connect request c is c; NoToken is a token
\* that no /connect ever issued.
NoToken == 0
Tokens  == ConnIds \cup {NoToken}

\* ------------------------------------------------------------ text
Whitespace == {" "}
Chars      == {" ", "x"}

TextsOfLen(n) == [1..n -> Chars]
Texts         == UNION {TextsOfLen(n) : n \in 0..MaxLen}

\* str.strip(): drop leading and trailing whitespace.
RECURSIVE LStrip(_)
LStrip(s) == IF s # <<>> /\ Head(s) \in Whitespace THEN LStrip(Tail(s)) ELSE s

RECURSIVE RStrip(_)
RStrip(s) ==
    IF s # <<>> /\ s[Len(s)] \in Whitespace
    THEN RStrip(SubSeq(s, 1, Len(s) - 1))
    ELSE s

StripLeftOnly(s) == LStrip(s)

Strip(s) == RStrip(LStrip(s))

\* The value of `await el.text_content()`: None or a string.
TextContents ==
    {[isNone |-> TRUE, text |-> <<>>]} \cup
    {[isNone |-> FALSE, text |-> t] : t \in Texts}

\* `x or ""`
OrEmpty(tc) == IF tc.isNone THEN <<>> ELSE tc.text

\* ------------------------------------------------------------ state
VARIABLES
    sessions,   \* _sessions: token -> [pw, browser, context] (resource ids)
    pw,         \* Playwright driver of each /connect: none, running, stopped
    browser,    \* browser process of each /connect: none, open, closed
    context,    \* browser context of each /connect: none, open, closed
    con,        \* /connect requests: position, local variables, response
    sea,        \* /search requests: position, local variables, response
    dis,        \* /disconnect requests: position, local variables, response
    call        \* one application of a helper computation: input and result

vars == <<sessions, pw, browser, context, con, sea, dis, call>>

NoText    == [isNone |-> TRUE, text |-> <<>>]
NoSession == [pw |-> 0, browser |-> 0, context |-> 0]

\* The five fault-isolated sections of /search, in the order of the code.
Sections == {"directors", "annual_returns", "history",
             "compliance_information", "other_details"}

ConIdle == [pc |-> "idle", page |-> "none", exc |-> "none", at |-> "none",
            banner |-> FALSE, raw |-> NoText, msg |-> <<>>, diag |-> "none", table |-> <<>>,
            status |-> 0, body |-> "none", handled |-> TRUE]
SeaIdle == [pc |-> "idle", token |-> NoToken, ctx |-> 0, page |-> "none",
            exc |-> "none", at |-> "none", diag |-> "none",
            phase |-> "none", soft |-> FALSE, stale |-> FALSE,
            look |-> "none", raw |-> NoText, msg |-> <<>>,
            secs |-> [x \in Sections |-> "default"], raised |-> {},
            status |-> 0, success |-> "none", body |-> "none",
            handled |-> TRUE]
DisIdle == [pc |-> "idle", token |-> NoToken, session |-> NoSession,
            found |-> FALSE, status |-> 0, success |-> "none",
            body |-> "none", handled |-> TRUE]

\* No helper computation is being followed.
NoCall == [fn |-> "none", arg |-> <<>>, out |-> <<>>, done |-> FALSE]

\* The service has just started: empty registry, no request.
NoRequests ==
    /\ sessions = [t \in {} |-> NoSession]
    /\ pw       = [c \in ConnIds |-> "none"]
    /\ browser  = [c \in ConnIds |-> "none"]
    /\ context  = [c \in ConnIds |-> "none"]
    /\ con      = [c \in ConnIds |-> ConIdle]
    /\ sea      = [s \in SeaIds |-> SeaIdle]
    /\ dis      = [d \in DisIds |-> DisIdle]

Init ==
    /\ NoRequests
    /\ call = NoCall

\* A /connect that has replied is "finished" (it returned a token) or
\* "failed".
Over == {"finished", "failed"}

\* Requests in flight.
Active ==
    Cardinality({c \in ConnIds : con[c].pc \notin {"idle"} \cup Over})
    + Cardinality({s \in SeaIds : sea[s].pc # "idle"})
    + Cardinality({d \in DisIds : dis[d].pc # "idle"})

\* A new request takes the lowest free slot of its kind.
LowestFree(slots, id) == \A j \in DOMAIN slots : j < id => slots[j].pc # "idle"

\* Outcomes of an awaited browser call.
Outcomes == {"ok", "timeout", "error"}

\* ------------------------------------------------------------ /connect
\* An exception that leaves connect() through no handler of its own:
\* FastAPI answers 500 and nothing is torn down.
ConnectUnhandled(r) ==
    [r EXCEPT !.at = r.pc, !.pc = "done", !.exc = "error", !.status = 500,
              !.body = "Internal Server Error", !.handled = FALSE]

\* token = str(uuid.uuid4()); pw = await async_playwright().start()
connect_start(c) ==
    /\ con[c].pc = "idle"
    /\ LowestFree(con, c)
    /\ Active < MaxActive
    /\ pw' = [pw EXCEPT ![c] = "running"]
    /\ con' = [con EXCEPT ![c].pc = "launch"]
    /\ UNCHANGED <<sessions, browser, context, sea, dis, call>>

\* browser = await pw.chromium.launch(...)
connect_launch(c) ==
    /\ con[c].pc = "launch"
    /\ \/ /\ browser' = [browser EXCEPT ![c] = "open"]
          /\ con' = [con EXCEPT ![c].pc = "new_context"]
       \/ /\ con' = [con EXCEPT ![c] = ConnectUnhandled(@)]
          /\ UNCHANGED browser
    /\ UNCHANGED <<sessions, pw, context, sea, dis, call>>

\* context = await browser.new_context()      (before the try)
connect_new_context(c) ==
    /\ con[c].pc = "new_context"
    /\ \/ /\ context' = [context EXCEPT ![c] = "open"]
          /\ con' = [con EXCEPT ![c].pc = "new_page"]
       \/ /\ con' = [con EXCEPT ![c] = ConnectUnhandled(@)]
          /\ UNCHANGED context
    /\ UNCHANGED <<sessions, pw, browser, sea, dis, call>>

\* page = await context.new_page()            (before the try)
connect_new_page(c) ==
    /\ con[c].pc = "new_page"
    /\ \/ con' = [con EXCEPT ![c].pc = "goto", ![c].page = "open"]
       \/ con' = [con EXCEPT ![c] = ConnectUnhandled(@)]
    /\ UNCHANGED <<sessions, pw, browser, context, sea, dis, call>>

\* A variant with one 401 handler for ValueError and PlaywrightTimeout.
ConnectHandlerTimeoutToo(exc) ==
    IF exc \in {"ValueError", "timeout"} THEN "teardown" ELSE "diag"

\* The except clause an exception of the try block reaches: ValueError has
\* its own clause, PlaywrightTimeout and everything else reach
\* `except Exception`, which starts with the diagnostics.
ConnectHandler(exc) == IF exc = "ValueError" THEN "teardown" ELSE "diag"

ConnectRaise(r, exc) ==
    [r EXCEPT !.at = r.pc, !.exc = exc, !.pc = ConnectHandler(exc)]

\* A step of the try block that raises nothing of its own.
ConnectTryStep(c, at, next) ==
    /\ con[c].pc = at
    /\ \E o \in Outcomes :
          con' = [con EXCEPT ![c] = IF o = "ok" THEN [@ EXCEPT !.pc = next]
                                    ELSE ConnectRaise(@, o)]
    /\ UNCHANGED <<sessions, pw, browser, context, sea, dis, call>>

\* 1) await page.goto(..., timeout=30000)
connect_goto(c) == ConnectTryStep(c, "goto", "wait_form")

\* 2) await page.wait_for_selector("#cntMain_pnlLogin", timeout=30000)
connect_wait_form(c) == ConnectTryStep(c, "wait_form", "submit")

\* 3) fill username, fill password, click login
connect_submit(c) == ConnectTryStep(c, "submit", "check_error")

\* 4) await asyncio.sleep(2); query "#cntMain_lblError"; if it is there,
\*    raise ValueError((await err_el.text_content() or "").strip())
connect_check_error(c) ==
    /\ con[c].pc = "check_error"
    /\ \/ \* no banner
          con' = [con EXCEPT ![c].pc = "wait_redirect"]
       \/ \* banner present
          \E tc \in TextContents :
             con' = [con EXCEPT ![c] =
                        ConnectRaise([@ EXCEPT !.banner = TRUE, !.raw = tc,
                                               !.msg = Strip(OrEmpty(tc))],
                                     "ValueError")]
       \/ \* the query or the read raises
          con' = [con EXCEPT ![c] = ConnectRaise(@, "error")]
    /\ UNCHANGED <<sessions, pw, browser, context, sea, dis, call>>

\* 5) wait_for_url("**/user_profile.aspx"), wait_for_selector(company list)
connect_wait_redirect(c) == ConnectTryStep(c, "wait_redirect", "scrape")

\* The enterprise table below its header row: a row is "good" (four cells,
\* both status cells with an <img>), "short" (cells missing: cells[i]
\* raises IndexError) or "noimg" (query_selector("img") is None:
\* None.get_attribute raises AttributeError).
RowKinds == {"good", "short", "noimg"}
Tables   == UNION {[1..n -> RowKinds] : n \in 0..MaxRows}

\* for row in rows[1:]: ... enterprises.append({...})
\* The loop stops at the first row that raises.
RECURSIVE ScrapeRows(_, _)
ScrapeRows(rows, enterprises) ==
    IF rows = <<>> THEN [raised |-> FALSE, enterprises |-> enterprises]
    ELSE IF Head(rows) # "good"
         THEN [raised |-> TRUE, enterprises |-> enterprises]
         ELSE ScrapeRows(Tail(rows), Append(enterprises, Head(rows)))

\* 6) rows = await page.query_selector_all(...); the loop over rows[1:]
connect_scrape(c) ==
    /\ con[c].pc = "scrape"
    /\ \/ \E rows \in Tables :
             con' = [con EXCEPT ![c] =
                        IF ScrapeRows(rows, <<>>).raised
                        THEN ConnectRaise([@ EXCEPT !.table = rows], "error")
                        ELSE [@ EXCEPT !.table = rows, !.pc = "close_page"]]
       \/ \* a query of the scrape raises
          con' = [con EXCEPT ![c] = ConnectRaise(@, "error")]
    /\ UNCHANGED <<sessions, pw, browser, context, sea, dis, call>>

\* A variant whose capture is not inside a try: its failure leaves the
\* handler.
connect_diag_unguarded(c) ==
    /\ con[c].pc = "diag"
    /\ \/ con' = [con EXCEPT ![c].pc = "teardown", ![c].diag = "saved"]
       \/ con' = [con EXCEPT ![c].pc = "done", ![c].diag = "failed",
                             ![c].status = 500,
                             ![c].body = "Internal Server Error",
                             ![c].handled = FALSE]
    /\ UNCHANGED <<sessions, pw, browser, context, sea, dis, call>>

\* except Exception: page.screenshot(...), open(...).write(page.content()),
\* inside a try whose except only logs.
connect_diag(c) ==
    /\ con[c].pc = "diag"
    /\ \E d \in {"saved", "failed"} :
          con' = [con EXCEPT ![c].pc = "teardown", ![c].diag = d]
    /\ UNCHANGED <<sessions, pw, browser, context, sea, dis, call>>

\* raise HTTPException(401, detail=str(ve)) / HTTPException(500, ...)
ConnectStatus(exc) == IF exc = "ValueError" THEN 401 ELSE 500

\* Both handlers end: page.close(); browser.close(); pw.stop(); raise.
connect_teardown(c) ==
    /\ con[c].pc = "teardown"
    /\ con' = [con EXCEPT ![c].pc = "done", ![c].page = "closed",
                          ![c].status = ConnectStatus(con[c].exc),
                          ![c].body = IF con[c].exc = "ValueError"
                                      THEN "detail"
                                      ELSE "Login/navigation error"]
    /\ browser' = [browser EXCEPT ![c] = "closed"]
    /\ context' = [context EXCEPT ![c] = "closed"]
    /\ pw' = [pw EXCEPT ![c] = "stopped"]
    /\ UNCHANGED <<sessions, sea, dis, call>>

\* success: await page.close()
connect_close_page(c) ==
    /\ con[c].pc = "close_page"
    /\ con' = [con EXCEPT ![c].pc = "register", ![c].page = "closed"]
    /\ UNCHANGED <<sessions, pw, browser, context, sea, dis, call>>

\* _sessions[token] = {"pw": pw, "browser": browser, "context": context, ...}
Register(reg, token, session) ==
    [t \in DOMAIN reg \cup {token} |-> IF t = token THEN session ELSE reg[t]]

\* ... and return {"success": True, "session_token": token, "enterprises": ...}
connect_register(c) ==
    /\ con[c].pc = "register"
    /\ sessions' = Register(sessions, c, [pw |-> c, browser |-> c, context |-> c])
    /\ con' = [con EXCEPT ![c].pc = "done", ![c].status = 200,
                          ![c].body = "enterprises"]
    /\ UNCHANGED <<pw, browser, context, sea, dis, call>>

\* The response has been sent; the request is over.
connect_reply(c) ==
    /\ con[c].pc = "done"
    /\ con' = [con EXCEPT ![c] =
                  [ConIdle EXCEPT !.pc = IF con[c].status = 200
                                         THEN "finished" ELSE "failed"]]
    /\ UNCHANGED <<sessions, pw, browser, context, sea, dis, call>>

connect_steps(c) ==
    \/ connect_launch(c)
    \/ connect_new_context(c)
    \/ connect_new_page(c)
    \/ connect_goto(c)
    \/ connect_wait_form(c)
    \/ connect_submit(c)
    \/ connect_check_error(c)
    \/ connect_wait_redirect(c)
    \/ connect_scrape(c)
    \/ connect_diag(c)
    \/ connect_teardown(c)
    \/ connect_close_page(c)
    \/ connect_register(c)
    \/ connect_reply(c)

connect(c) == connect_start(c) \/ connect_steps(c)

\* A variant of the lookup that falls back on some registered session.
SessionGetAny(reg, token) ==
    IF token \in DOMAIN reg
    THEN [found |-> TRUE, session |-> reg[token]]
    ELSE IF DOMAIN reg # {}
         THEN [found |-> TRUE, session |-> reg[CHOOSE t \in DOMAIN reg : TRUE]]
         ELSE [found |-> FALSE, session |-> NoSession]

\* ------------------------------------------------------------ /search
\* _sessions.get(token): the session, or None.
SessionGet(reg, token) ==
    IF token \in DOMAIN reg
    THEN [found |-> TRUE, session |-> reg[token]]
    ELSE [found |-> FALSE, session |-> NoSession]

\* session = _sessions.get(req.session_token)
\* if not session: raise HTTPException(401, "Session expired or invalid")
\* context = session["context"]
search_lookup(s) ==
    /\ sea[s].pc = "idle"
    /\ LowestFree(sea, s)
    /\ Active < MaxActive
    /\ \E t \in Tokens :
          LET got == SessionGet(sessions, t) IN
          sea' = [sea EXCEPT ![s] =
                     IF got.found
                     THEN [@ EXCEPT !.pc = "new_page", !.token = t,
                                    !.ctx = got.session.context]
                     ELSE [@ EXCEPT !.pc = "done", !.token = t,
                                    !.status = 401,
                                    !.body = "Session expired or invalid"]]
    /\ UNCHANGED <<sessions, pw, browser, context, con, dis, call>>

\* The outcomes a call on the request's context or tab can have now: a
\* call on a closed browser raises.
CallOutcomes(s, outs) == IF context[sea[s].ctx] = "open" THEN outs ELSE {"error"}

\* The request has used a browser that was torn down.
Touch(r) == [r EXCEPT !.stale = @ \/ context[r.ctx] # "open"]

\* page = await context.new_page()            (before the try)
search_new_page(s) ==
    /\ sea[s].pc = "new_page"
    /\ \E o \in CallOutcomes(s, {"ok", "error"}) :
          sea' = [sea EXCEPT ![s] =
                     IF o = "ok"
                     THEN [Touch(@) EXCEPT !.pc = "goto", !.page = "open"]
                     ELSE [Touch(@) EXCEPT !.at = "new_page", !.pc = "done",
                                           !.exc = "error", !.status = 500,
                                           !.body = "Internal Server Error",
                                           !.handled = FALSE]]
    /\ UNCHANGED <<sessions, pw, browser, context, con, dis, call>>

\* An exception raised in the try block, on its way to an except clause.
SearchRaise(r, exc) == [r EXCEPT !.at = r.pc, !.exc = exc, !.pc = "raised"]

\* A step of the try block that raises nothing of its own.
SearchTryStep(s, at, next) ==
    /\ sea[s].pc = at
    /\ \E o \in CallOutcomes(s, Outcomes) :
          sea' = [sea EXCEPT ![s] =
                     IF o = "ok" THEN [Touch(@) EXCEPT !.pc = next]
                     ELSE SearchRaise(Touch(@), o)]
    /\ UNCHANGED <<sessions, pw, browser, context, con, dis, call>>

\* 1) await page.goto(..., timeout=30000)
search_goto(s) == SearchTryStep(s, "goto", "wait_box")

\*    await page.wait_for_selector("#cntMain_pnlSearchBox", timeout=10000)
search_wait_box(s) == SearchTryStep(s, "wait_box", "select")

\* 2) await page.select_option("#cntMain_drpSearchOptions", "EntNo")
search_select(s) == SearchTryStep(s, "select", "wait_enabled")

\* 3) await asyncio.sleep(1); try: wait_for_selector(input:not([disabled]))
\*    except PlaywrightTimeout: logging.warning(...)
search_wait_enabled_fatal(s) == SearchTryStep(s, "wait_enabled", "fill")

search_wait_enabled(s) ==
    /\ sea[s].pc = "wait_enabled"
    /\ \E o \in CallOutcomes(s, Outcomes) :
          sea' = [sea EXCEPT ![s] =
                     IF o = "error" THEN SearchRaise(Touch(@), "error")
                     ELSE [Touch(@) EXCEPT !.pc = "fill",
                                           !.soft = (o = "timeout")]]
    /\ UNCHANGED <<sessions, pw, browser, context, con, dis, call>>

\* An element is looked up and, if it is there, driven; if it is not,
\* raise ValueError(...).
SearchElementStep(s, at, next) ==
    /\ sea[s].pc = at
    /\ \E o \in CallOutcomes(s, Outcomes \cup {"missing"}) :
          sea' = [sea EXCEPT ![s] =
                     IF o = "ok"
                     THEN [Touch(@) EXCEPT !.pc = next, !.soft = FALSE]
                     ELSE SearchRaise([Touch(@) EXCEPT !.soft = FALSE],
                                      IF o = "missing" THEN "ValueError" ELSE o)]
    /\ UNCHANGED <<sessions, pw, browser, context, con, dis, call>>

\* 4) search_input = query_selector(...); fill(""), fill(req.query)
\*    else raise ValueError("Could not find search input field")
search_fill(s) == SearchElementStep(s, "fill", "click")

\* 5) search_button = query_selector(...); click()
\*    else raise ValueError("Could not find search button")
search_click(s) == SearchElementStep(s, "click", "wait_results")

\* 6) await asyncio.sleep(2); try: the results panel and the key label
\*    except PlaywrightTimeout: (the inner handler, search_on_timeout)
search_wait_results(s) ==
    /\ sea[s].pc = "wait_results"
    /\ \E o \in CallOutcomes(s, Outcomes) :
          sea' = [sea EXCEPT ![s] =
                     IF o = "ok" THEN [Touch(@) EXCEPT !.pc = "details"]
                     ELSE IF o = "timeout"
                          THEN [Touch(@) EXCEPT !.pc = "on_timeout"]
                          ELSE SearchRaise(Touch(@), "error")]
    /\ UNCHANGED <<sessions, pw, browser, context, con, dis, call>>

\* A variant that lets the timeout through to the 500 handler.
NoResultsAsTimeout(r) ==
    [r EXCEPT !.at = r.pc, !.exc = "timeout", !.pc = "raised"]

\* except PlaywrightTimeout (inside the outer try):
\*    error_msg = await page.query_selector(".error-message")
\*    if error_msg: error_text = (await error_msg.text_content()).strip();
\*                  await page.close(); return {success: False, ...}
\*    await page.close(); return {success: True, data: [], ...}
\* return {"success": True, "data": [], "message": "No results found ..."}
NoResults(r) ==
    [r EXCEPT !.pc = "done", !.page = "closed", !.status = 200,
              !.success = "true", !.body = "no_results"]

\* return {"success": False, "error": error_text, "message": ...}
BusinessError(r, tc) ==
    [r EXCEPT !.pc = "done", !.page = "closed", !.status = 200,
              !.success = "false", !.body = "business_error",
              !.raw = tc, !.msg = Strip(tc.text)]

search_on_timeout(s) ==
    /\ sea[s].pc = "on_timeout"
    /\ \/ \* no error message on the page
          /\ context[sea[s].ctx] = "open"
          /\ sea' = [sea EXCEPT ![s] = NoResults([@ EXCEPT !.look = "absent"])]
       \/ \* an error message is on the page
          /\ context[sea[s].ctx] = "open"
          /\ \E tc \in TextContents :
                sea' = [sea EXCEPT ![s] =
                           IF tc.isNone     \* None.strip(): AttributeError
                           THEN SearchRaise([@ EXCEPT !.look = "found"], "error")
                           ELSE BusinessError([@ EXCEPT !.look = "found"], tc)]
       \/ \* the query raises
          sea' = [sea EXCEPT ![s] =
                     SearchRaise([Touch(@) EXCEPT !.look = "raised"], "error")]
    /\ UNCHANGED <<sessions, pw, browser, context, con, dis, call>>

\* 7) company details: the label reads, outside any inner try
search_details(s) ==
    /\ sea[s].pc = "details"
    /\ \E o \in CallOutcomes(s, {"ok", "error"}) :
          sea' = [sea EXCEPT ![s] =
                     IF o = "ok" THEN [Touch(@) EXCEPT !.pc = "directors"]
                     ELSE SearchRaise(Touch(@), "error")]
    /\ UNCHANGED <<sessions, pw, browser, context, con, dis, call>>

\* What a section's variable holds when its block is left:
\*   "full"    the block ran to its end,
\*   "default" the initial value (the tab is absent, or the block raised
\*             before it stored anything),
\*   "partial" the block raised after it had stored rows or fields.
\* The except clause of the block only logs: the variable keeps what the
\* block had stored.
SectionResults(s) ==
    IF context[sea[s].ctx] # "open"
    THEN {[shape |-> "default", raised |-> TRUE]}
    ELSE {[shape |-> "full", raised |-> FALSE]} \cup
         (IF Cardinality(sea[s].raised) < MaxFaults
          THEN {[shape |-> "default", raised |-> TRUE],
                [shape |-> "partial", raised |-> TRUE]}
          ELSE {})

SearchSection(s, name, next) ==
    /\ sea[s].pc = name
    /\ \E r \in SectionResults(s) :
          sea' = [sea EXCEPT ![s] =
                     [Touch(@) EXCEPT !.pc = next,
                                      !.secs[name] = r.shape,
                                      !.raised = IF r.raised
                                                 THEN @ \cup {name} ELSE @]]
    /\ UNCHANGED <<sessions, pw, browser, context, con, dis, call>>

search_directors(s) == SearchSection(s, "directors", "annual_returns")

search_annual_returns(s) == SearchSection(s, "annual_returns", "history")

search_history(s) == SearchSection(s, "history", "compliance_information")

search_compliance_information(s) ==
    SearchSection(s, "compliance_information", "other_details")

search_other_details(s) == SearchSection(s, "other_details", "close_page")

\* A variant that closes every tab of the context (context.pages).
search_close_pages(s) ==
    /\ sea[s].pc = "close_page"
    /\ sea' = [o \in SeaIds |->
                 IF o = s
                 THEN [sea[o] EXCEPT !.pc = "done", !.page = "closed",
                                     !.status = 200, !.success = "true",
                                     !.body = "data"]
                 ELSE IF sea[o].ctx = sea[s].ctx /\ sea[o].page = "open"
                      THEN [sea[o] EXCEPT !.page = "closed"]
                      ELSE sea[o]]
    /\ UNCHANGED <<sessions, pw, browser, context, con, dis, call>>

\* A variant that closes the context along with the tab.
search_close_context(s) ==
    /\ sea[s].pc = "close_page"
    /\ sea' = [sea EXCEPT ![s].pc = "done", ![s].page = "closed",
                          ![s].status = 200, ![s].success = "true",
                          ![s].body = "data"]
    /\ context' = [context EXCEPT ![sea[s].ctx] = "closed"]
    /\ UNCHANGED <<sessions, pw, browser, con, dis, call>>

\* await page.close(); return {"success": True, "data": {...}}
search_close_page(s) ==
    /\ sea[s].pc = "close_page"
    /\ sea' = [sea EXCEPT ![s].pc = "done", ![s].page = "closed",
                          ![s].status = 200, ![s].success = "true",
                          ![s].body = "data"]
    /\ UNCHANGED <<sessions, pw, browser, context, con, dis, call>>

\* A variant that treats the missing element as the generic handler does.
search_except_value_as_error(s) ==
    /\ sea[s].pc = "raised"
    /\ sea[s].exc = "ValueError"
    /\ \E d \in {"saved", "failed"} :
          sea' = [sea EXCEPT ![s].pc = "done", ![s].page = "closed",
                                ![s].diag = d, ![s].phase = "search_error",
                                ![s].status = 500, ![s].body = "Search error"]
    /\ UNCHANGED <<sessions, pw, browser, context, con, dis, call>>

\* A variant of the handler without its page.close().
search_except_value_no_close(s) ==
    /\ sea[s].pc = "raised"
    /\ sea[s].exc = "ValueError"
    /\ sea' = [sea EXCEPT ![s].pc = "done", ![s].status = 400,
                          ![s].body = IF sea[s].at = "fill"
                                      THEN "Could not find search input field"
                                      ELSE "Could not find search button"]
    /\ UNCHANGED <<sessions, pw, browser, context, con, dis, call>>

\* except ValueError as ve: await page.close(); raise HTTPException(400, ...)
search_except_value(s) ==
    /\ sea[s].pc = "raised"
    /\ sea[s].exc = "ValueError"
    /\ sea' = [sea EXCEPT ![s].pc = "done", ![s].page = "closed",
                          ![s].status = 400,
                          ![s].body = IF sea[s].at = "fill"
                                      THEN "Could not find search input field"
                                      ELSE "Could not find search button"]
    /\ UNCHANGED <<sessions, pw, browser, context, con, dis, call>>

\* The screenshot and HTML dump of a handler: it fails on a closed browser.
DiagOutcomes(s) ==
    IF context[sea[s].ctx] = "open" THEN {"saved", "failed"} ELSE {"failed"}

\* except PlaywrightTimeout: diagnostics (search_timeout), page.close(),
\* raise HTTPException(500, "Search operation timed out")
search_except_timeout(s) ==
    /\ sea[s].pc = "raised"
    /\ sea[s].exc = "timeout"
    /\ \E d \in DiagOutcomes(s) :
          sea' = [sea EXCEPT ![s] =
                     [Touch(@) EXCEPT !.pc = "done", !.page = "closed",
                                      !.diag = d, !.phase = "search_timeout",
                                      !.status = 500,
                                      !.body = "Search operation timed out"]]
    /\ UNCHANGED <<sessions, pw, browser, context, con, dis, call>>

\* A variant of the handler that tears the session's browser down, as the
\* handlers of /connect do.
search_except_exception_teardown(s) ==
    /\ sea[s].pc = "raised"
    /\ sea[s].exc = "error"
    /\ \E d \in {"saved", "failed"} :
          sea' = [sea EXCEPT ![s] =
                     [@ EXCEPT !.pc = "done", !.page = "closed",
                               !.diag = d, !.phase = "search_error",
                               !.status = 500, !.body = "Search error"]]
    /\ browser' = [browser EXCEPT ![sea[s].ctx] = "closed"]
    /\ context' = [context EXCEPT ![sea[s].ctx] = "closed"]
    /\ UNCHANGED <<sessions, pw, con, dis, call>>

\* except Exception: diagnostics (search_error), page.close(),
\* raise HTTPException(500, "Search error: ...")
search_except_exception(s) ==
    /\ sea[s].pc = "raised"
    /\ sea[s].exc = "error"
    /\ \E d \in DiagOutcomes(s) :
          sea' = [sea EXCEPT ![s] =
                     [Touch(@) EXCEPT !.pc = "done", !.page = "closed",
                                      !.diag = d, !.phase = "search_error",
                                      !.status = 500,
                                      !.body = "Search error"]]
    /\ UNCHANGED <<sessions, pw, browser, context, con, dis, call>>

\* The response has been sent; the request is over.
search_reply(s) ==
    /\ sea[s].pc = "done"
    /\ sea' = [sea EXCEPT ![s] = SeaIdle]
    /\ UNCHANGED <<sessions, pw, browser, context, con, dis, call>>

search_steps(s) ==
    \/ search_new_page(s)
    \/ search_goto(s)
    \/ search_wait_box(s)
    \/ search_select(s)
    \/ search_wait_enabled(s)
    \/ search_fill(s)
    \/ search_click(s)
    \/ search_wait_results(s)
    \/ search_on_timeout(s)
    \/ search_details(s)
    \/ search_directors(s)
    \/ search_annual_returns(s)
    \/ search_history(s)
    \/ search_compliance_information(s)
    \/ search_other_details(s)
    \/ search_close_page(s)
    \/ search_except_value(s)
    \/ search_except_timeout(s)
    \/ search_except_exception(s)
    \/ search_reply(s)

search_company(s) == search_lookup(s) \/ search_steps(s)

\* ------------------------------------------------------------ /disconnect
\* session = _sessions.get(session_token)
\* if not session: return {"success": False, "message": "Session not found"}
disconnect_lookup(d) ==
    /\ dis[d].pc = "idle"
    /\ LowestFree(dis, d)
    /\ Active < MaxActive
    /\ \E t \in Tokens :
          LET got == SessionGet(sessions, t) IN
          dis' = [dis EXCEPT ![d] =
                     IF got.found
                     THEN [@ EXCEPT !.pc = "close_browser", !.token = t,
                                    !.found = TRUE, !.session = got.session]
                     ELSE [@ EXCEPT !.pc = "done", !.token = t,
                                    !.status = 200, !.success = "false",
                                    !.body = "Session not found"]]
    /\ UNCHANGED <<sessions, pw, browser, context, con, sea, call>>

\* A variant without the except clause: the exception leaves the handler.
DisconnectRaises(r) ==
    [r EXCEPT !.pc = "done", !.status = 500, !.body = "Internal Server Error",
              !.handled = FALSE]

\* except Exception as e: return {"success": False, "message": "Error ..."}
DisconnectFailed(r) ==
    [r EXCEPT !.pc = "done", !.status = 200, !.success = "false",
              !.body = "Error closing session"]

\* try: await session["browser"].close()
disconnect_close_browser(d) ==
    /\ dis[d].pc = "close_browser"
    /\ \/ /\ browser' = [browser EXCEPT ![dis[d].session.browser] = "closed"]
          /\ context' = [context EXCEPT ![dis[d].session.context] = "closed"]
          /\ dis' = [dis EXCEPT ![d].pc = "stop"]
       \/ /\ dis' = [dis EXCEPT ![d] = DisconnectFailed(@)]
          /\ UNCHANGED <<browser, context>>
    /\ UNCHANGED <<sessions, pw, con, sea, call>>

\*      await session["pw"].stop()
disconnect_stop(d) ==
    /\ dis[d].pc = "stop"
    /\ \/ /\ pw' = [pw EXCEPT ![dis[d].session.pw] = "stopped"]
          /\ dis' = [dis EXCEPT ![d].pc = "del"]
       \/ /\ dis' = [dis EXCEPT ![d] = DisconnectFailed(@)]
          /\ UNCHANGED pw
    /\ UNCHANGED <<sessions, browser, context, con, sea, call>>

\* A variant that empties the registry.
UnregisterAll(reg, token) == [t \in {} |-> NoSession]

\* del reg[token]
Unregister(reg, token) == [t \in DOMAIN reg \ {token} |-> reg[t]]

\*      del _sessions[session_token]          (KeyError if it is gone)
\*      return {"success": True, "message": "Session closed"}
disconnect_del(d) ==
    /\ dis[d].pc = "del"
    /\ IF dis[d].token \in DOMAIN sessions
       THEN /\ sessions' = Unregister(sessions, dis[d].token)
            /\ dis' = [dis EXCEPT ![d].pc = "done", ![d].status = 200,
                                  ![d].success = "true",
                                  ![d].body = "Session closed"]
       ELSE /\ dis' = [dis EXCEPT ![d] = DisconnectFailed(@)]
            /\ UNCHANGED sessions
    /\ UNCHANGED <<pw, browser, context, con, sea, call>>

\* The response has been sent; the request is over.
disconnect_reply(d) ==
    /\ dis[d].pc = "done"
    /\ dis' = [dis EXCEPT ![d] = DisIdle]
    /\ UNCHANGED <<sessions, pw, browser, context, con, sea, call>>

disconnect_steps(d) ==
    \/ disconnect_close_browser(d)
    \/ disconnect_stop(d)
    \/ disconnect_del(d)
    \/ disconnect_reply(d)

disconnect(d) == disconnect_lookup(d) \/ disconnect_steps(d)

\* ------------------------------------------------------------ helpers
\* The computations the handlers apply to the texts they scrape.  Each is
\* followed on its own: call holds one input and, once the computation has
\* been applied, its result.

\* needle in s
Contains(needle, s) ==
    \E i \in 1..(Len(s) + 1) :
        /\ i + Len(needle) - 1 <= Len(s)
        /\ SubSeq(s, i, i + Len(needle) - 1) = needle

\* An icon's src, cut in pieces: the names of the three icons are two
\* pieces each ("verify_" and the rest), so that a src may hold a part of a
\* name, one name or two names.
SrcPieces  == {"verify_", "tick_sml.png", "orange_sml.png", "cross_sml.png",
               "x"}
Srcs       == UNION {[1..n -> SrcPieces] : n \in 0..MaxSrcLen}
TickIcon   == <<"verify_", "tick_sml.png">>
OrangeIcon == <<"verify_", "orange_sml.png">>
CrossIcon  == <<"verify_", "cross_sml.png">>

\* A variant with the orange and the cross icon exchanged.
map_status_exchanged(src) ==
    IF Contains(TickIcon, src) THEN "IN BUSINESS"
    ELSE IF Contains(CrossIcon, src) THEN "IN DEREGISTRATION PROCESS"
    ELSE IF Contains(OrangeIcon, src) THEN "FINAL DEREGISTRATION"
    ELSE "UNKNOWN"

\* def _map_status_from_src(src: str) -> str
map_status_from_src(src) ==
    IF Contains(TickIcon, src) THEN "IN BUSINESS"
    ELSE IF Contains(OrangeIcon, src) THEN "IN DEREGISTRATION PROCESS"
    ELSE IF Contains(CrossIcon, src) THEN "FINAL DEREGISTRATION"
    ELSE "UNKNOWN"

\* The characters of a date text: the separator, a digit, and a sign.
DateChars == {"/", "7", "-"}
DateTexts == UNION {[1..n -> DateChars] : n \in 0..MaxDateLen}
Signs     == {"+", "-"}

\* s.split(sep): the pieces of s between the separators, empty ones kept.
RECURSIVE Split(_, _)
Split(s, sep) ==
    IF \A k \in 1..Len(s) : s[k] # sep THEN <<s>>
    ELSE LET i == CHOOSE k \in 1..Len(s) :
                      s[k] = sep /\ \A j \in 1..(k - 1) : s[j] # sep
         IN <<SubSeq(s, 1, i - 1)>> \o Split(SubSeq(s, i + 1, Len(s)), sep)

Zeros(n) == [k \in 1..n |-> "0"]

\* A variant that pads nothing.
NoFill(s, width) == s

\* s.zfill(width): zeros on the left up to width, after a leading sign.
ZFill(s, width) ==
    IF Len(s) >= width THEN s
    ELSE IF s # <<>> /\ s[1] \in Signs
         THEN <<s[1]>> \o Zeros(width - Len(s)) \o Tail(s)
         ELSE Zeros(width - Len(s)) \o s

\* if "/" in date_raw: parts = date_raw.split("/")
\*     if len(parts) == 3: f"{parts[0]}-{parts[1].zfill(2)}-{parts[2].zfill(2)}"
\*     else: date_raw
\* else: date_raw
format_date(date_raw) ==
    IF Contains(<<"/">>, date_raw)
    THEN LET parts == Split(date_raw, "/") IN
         IF Len(parts) = 3
         THEN parts[1] \o <<"-">> \o ZFill(parts[2], 2)
                       \o <<"-">> \o ZFill(parts[3], 2)
         ELSE date_raw
    ELSE date_raw

\* The fields with a sentinel, and the text of a label cut in pieces: a
\* sentinel is one piece.
SentinelFields == {"complianceNotice", "uifRegNumber",
                   "compensationFundRegNum"}
FieldPieces    == {" ", "NONE", "NOT AVAILABLE", "x"}
FieldTexts     == UNION {[1..n -> FieldPieces] : n \in 0..MaxFieldLen}

Sentinel(field) ==
    IF field = "complianceNotice" THEN <<"NONE">> ELSE <<"NOT AVAILABLE">>

\* A variant that compares the text before it is trimmed.
null_if_sentinel_untrimmed(field, text) ==
    IF text = Sentinel(field)
    THEN [isNone |-> TRUE, text |-> <<>>]
    ELSE [isNone |-> FALSE, text |-> Strip(text)]

\* x_text = (await x.text_content()).strip()
\* field = None if x_text == "NONE" else x_text       ("NOT AVAILABLE")
null_if_sentinel(field, text) ==
    IF Strip(text) = Sentinel(field)
    THEN [isNone |-> TRUE, text |-> <<>>]
    ELSE [isNone |-> FALSE, text |-> Strip(text)]

\* The inputs followed.
Calls ==
    {[fn |-> "map_status_from_src", arg |-> a, out |-> <<>>, done |-> FALSE]
        : a \in Srcs}
    \cup
    {[fn |-> "format_date", arg |-> a, out |-> <<>>, done |-> FALSE]
        : a \in DateTexts}
    \cup
    {[fn |-> "null_if_sentinel", arg |-> [field |-> f, text |-> t],
      out |-> <<>>, done |-> FALSE] : f \in SentinelFields, t \in FieldTexts}

apply_map_status_from_src ==
    /\ call.fn = "map_status_from_src"
    /\ ~call.done
    /\ call' = [call EXCEPT !.out = map_status_from_src(call.arg),
                            !.done = TRUE]
    /\ UNCHANGED <<sessions, pw, browser, context, con, sea, dis>>

apply_format_date ==
    /\ call.fn = "format_date"
    /\ ~call.done
    /\ call' = [call EXCEPT !.out = format_date(call.arg), !.done = TRUE]
    /\ UNCHANGED <<sessions, pw, browser, context, con, sea, dis>>

apply_null_if_sentinel ==
    /\ call.fn = "null_if_sentinel"
    /\ ~call.done
    /\ call' = [call EXCEPT
                   !.out = null_if_sentinel(call.arg.field, call.arg.text),
                   !.done = TRUE]
    /\ UNCHANGED <<sessions, pw, browser, context, con, sea, dis>>

InitPure ==
    /\ NoRequests
    /\ call \in Calls

NextPure ==
    \/ apply_map_status_from_src
    \/ apply_format_date
    \/ apply_null_if_sentinel

SpecPure == InitPure /\ [][NextPure]_vars

\* ------------------------------------------------------------ system
Next ==
    \/ \E c \in ConnIds : connect(c)
    \/ \E s \in SeaIds : search_company(s)
    \/ \E d \in DisIds : disconnect(d)

Spec == Init /\ [][Next]_vars

\* The same handlers with the requests arriving one at a time: a request
\* starts when no other is in flight.
Quiet == Active = 0

NextSeq ==
    \/ \E c \in ConnIds : (Quiet /\ connect_start(c)) \/ connect_steps(c)
    \/ \E s \in SeaIds : (Quiet /\ search_lookup(s)) \/ search_steps(s)
    \/ \E d \in DisIds : (Quiet /\ disconnect_lookup(d)) \/ disconnect_steps(d)

SpecSeq == Init /\ [][NextSeq]_vars

\* ------------------------------------------------------------ properties
\* A token that a /connect returned.
Issued(t) ==
    /\ t \in ConnIds
    /\ \/ con[t].pc = "finished"
       \/ con[t].pc = "done" /\ con[t].status = 200

AllWhitespace(t) == \A k \in 1..Len(t) : t[k] \in Whitespace

\* d is t without its leading and trailing whitespace.
IsTrimOf(d, t) ==
    /\ d # <<>> => d[1] \notin Whitespace /\ d[Len(d)] \notin Whitespace
    /\ \E i \in 0..Len(t) :
          /\ i + Len(d) <= Len(t)
          /\ AllWhitespace(SubSeq(t, 1, i))
          /\ SubSeq(t, i + 1, i + Len(d)) = d
          /\ AllWhitespace(SubSeq(t, i + Len(d) + 1, Len(t)))

\* C1: a /search whose token is not registered answers 401 in its lookup
\* step, with no tab opened, no browser call made and the registry and the
\* browsers untouched; nothing but the reply follows.
C1_UnknownTokenRejected ==
    [][\A s \in SeaIds :
          /\ (sea[s].pc = "idle" /\ sea'[s].pc # "idle"
                /\ sea'[s].token \notin DOMAIN sessions)
             => /\ sea'[s].pc = "done"
                /\ sea'[s].status = 401
                /\ sea'[s].body = "Session expired or invalid"
                /\ sea'[s].page = "none"
                /\ sea'[s].ctx = 0
                /\ ~sea'[s].stale
                /\ sea'[s].diag = "none"
                /\ UNCHANGED <<sessions, pw, browser, context, con, dis>>
          /\ (sea[s].pc = "done" /\ sea[s].status = 401)
             => sea'[s] \in {sea[s], SeaIdle}]_vars

\* C1 witness: a token that was issued and then disconnected is rejected.
C1_Witness ==
    \E s \in SeaIds :
        /\ sea[s].pc = "done"
        /\ sea[s].status = 401
        /\ Issued(sea[s].token)
        /\ sea[s].token \notin DOMAIN sessions

\* C2: a /connect that found the error banner answers 401 with the
\* banner's text, trimmed, as detail; its token is not registered and no
\* diagnostics were captured.
C2_BannerGives401 ==
    \A c \in ConnIds :
        (con[c].pc = "done" /\ con[c].banner)
        => /\ con[c].status = 401
           /\ con[c].body = "detail"
           /\ IsTrimOf(con[c].msg, OrEmpty(con[c].raw))
           /\ c \notin DOMAIN sessions
           /\ con[c].diag = "none"

\* C2 witness: a banner whose text had whitespace to trim.
C2_Witness ==
    \E c \in ConnIds :
        /\ con[c].pc = "done"
        /\ con[c].banner
        /\ con[c].status = 401
        /\ con[c].msg # <<>>
        /\ Len(con[c].msg) < Len(con[c].raw.text)

\* C3: with the requests one after the other, every step of a /search
\* leaves the registry, the drivers, the browsers and the contexts as they
\* are and touches no tab but its own; its tab is opened in the context
\* the /connect of its token registered; and when it ends, whatever the
\* outcome, the session is still registered with browser and context open.
C3_SearchKeepsSession ==
    /\ [](\A s \in SeaIds :
             (sea[s].pc = "done" /\ sea[s].page = "closed" /\ ~sea[s].stale)
             => /\ sea[s].token \in DOMAIN sessions
                /\ sessions[sea[s].token].context = sea[s].ctx
                /\ browser[sessions[sea[s].token].browser] = "open"
                /\ context[sea[s].ctx] = "open"
                /\ pw[sessions[sea[s].token].pw] = "running")
    /\ [][\A s \in SeaIds :
             sea'[s] # sea[s]
             => /\ UNCHANGED <<sessions, pw, browser, context, con, dis>>
                /\ \A o \in SeaIds \ {s} : sea'[o] = sea[o]
                /\ sea'[s].page # "none"
                   => /\ Issued(sea'[s].token)
                      /\ sea'[s].ctx = sea'[s].token]_vars

\* C3 witness: a /search that failed with 500 on a session that stays
\* registered and open.
C3_Witness ==
    \E s \in SeaIds :
        /\ sea[s].pc = "done"
        /\ sea[s].status = 500
        /\ sea[s].page = "closed"
        /\ sea[s].token \in DOMAIN sessions
        /\ browser[sea[s].token] = "open"

\* C4: every /disconnect ends with a {success, message} payload and never
\* with an exception; for a token that is not registered the payload says
\* success:false ("Session not found") and the registry is not changed.
C4_DisconnectNeverRaises ==
    /\ [](\A d \in DisIds :
             dis[d].pc = "done"
             => /\ dis[d].handled
                /\ dis[d].status = 200
                /\ dis[d].success \in {"true", "false"}
                /\ dis[d].body \in {"Session not found", "Session closed",
                                    "Error closing session"}
                /\ ~dis[d].found
                   => /\ dis[d].success = "false"
                      /\ dis[d].body = "Session not found")
    /\ [][\A d \in DisIds :
             (dis[d].pc = "idle" /\ dis'[d].pc # "idle"
                /\ dis'[d].token \notin DOMAIN sessions)
             => /\ dis'[d].pc = "done"
                /\ ~dis'[d].found
                /\ UNCHANGED <<sessions, pw, browser, context, con, sea>>]_vars

\* C4 witness: a /disconnect on a token that an earlier /disconnect removed.
C4_Witness ==
    \E d \in DisIds :
        /\ dis[d].pc = "done"
        /\ ~dis[d].found
        /\ dis[d].success = "false"
        /\ Issued(dis[d].token)
        /\ pw[dis[d].token] = "stopped"

\* C5: once a /disconnect on a registered token has returned, the browser
\* is closed, the driver stopped and the token no longer registered.
C5_DisconnectRemovesEntry ==
    \A d \in DisIds :
        (dis[d].pc = "done" /\ dis[d].found)
        => /\ dis[d].token \notin DOMAIN sessions
           /\ browser[dis[d].session.browser] = "closed"
           /\ pw[dis[d].session.pw] = "stopped"

C7_FailedConnectTornDown ==
    \A c \in ConnIds :
        (con[c].pc = "done" /\ con[c].status # 200 /\ browser[c] # "none")
        => /\ con[c].page # "open"
           /\ browser[c] = "closed"
           /\ pw[c] = "stopped"
           /\ c \notin DOMAIN sessions

\* C8: a /search that has its response has no tab open: it closed the tab
\* it opened, and it opened none only when it was rejected with 401 or
\* when new_page itself raised.
C8_SearchClosesItsTab ==
    \A s \in SeaIds :
        sea[s].pc = "done"
        => /\ sea[s].page \in {"none", "closed"}
           /\ sea[s].page = "none"
              => \/ sea[s].status = 401
                 \/ ~sea[s].handled /\ sea[s].at = "new_page"

\* C8 witness: the tab is closed on the 500 timeout path.
C8_Witness ==
    \E s \in SeaIds :
        /\ sea[s].pc = "done"
        /\ sea[s].status = 500
        /\ sea[s].phase = "search_timeout"
        /\ sea[s].page = "closed"

\* C9: nothing protects a /search from a /disconnect on its token.  The
\* browser of an issued session is closed by the close step of a
\* /disconnect on that token and by nothing else, and a /search that made
\* a call on a closed browser had found its token registered and made the
\* call on the context of that session: it is not looked up again.
C9_StaleUseOnlyAfterDisconnect ==
    /\ [](\A s \in SeaIds :
             sea[s].stale
             => /\ Issued(sea[s].token)
                /\ sea[s].ctx = sea[s].token
                /\ browser[sea[s].ctx] = "closed"
                /\ context[sea[s].ctx] = "closed")
    /\ [][\A b \in ConnIds :
             (Issued(b) /\ browser[b] = "open" /\ browser'[b] # "open")
             => \E d \in DisIds :
                   /\ dis[d].token = b
                   /\ dis[d].pc = "close_browser"
                   /\ dis'[d].pc = "stop"]_vars

\* C9 witness: the race.  A /disconnect has closed the browser and has not
\* yet removed the entry; a /search found the token registered and drove
\* its tab on the closed browser.
C9_Witness ==
    \E s \in SeaIds, d \in DisIds :
        /\ dis[d].pc \in {"stop", "del"}
        /\ dis[d].token = sea[s].token
        /\ sea[s].token \in DOMAIN sessions
        /\ sea[s].stale
        /\ sea[s].page = "open"
        /\ sea[s].pc = "raised"

\* The two outcomes of /connect that C10 is about.
InvalidCredentials(c) == con[c].banner
FormNotFound(c) == con[c].at = "wait_form" /\ con[c].exc = "timeout"

\* C10 as stated: both outcomes give 401 without diagnostics, every other
\* failure gives 500.
C10_BothGive401 ==
    \A c \in ConnIds :
        (con[c].pc = "done" /\ con[c].status # 200)
        => IF InvalidCredentials(c) \/ FormNotFound(c)
           THEN con[c].status = 401 /\ con[c].diag = "none"
           ELSE con[c].status = 500

\* C10 amended: only the error banner gives 401 without diagnostics; the
\* login-panel timeout, like every other failure, gives 500, and inside
\* the try block after an attempt to capture diagnostics.
C10_OnlyBannerGives401 ==
    \A c \in ConnIds :
        (con[c].pc = "done" /\ con[c].status # 200)
        => IF InvalidCredentials(c)
           THEN con[c].status = 401 /\ con[c].diag = "none"
           ELSE /\ con[c].status = 500
                /\ con[c].handled => con[c].diag \in {"saved", "failed"}
                /\ FormNotFound(c) => con[c].handled

\* C10 witness: the login-panel timeout answered with 500 after a capture.
C10_Witness ==
    \E c \in ConnIds :
        /\ con[c].pc = "done"
        /\ FormNotFound(c)
        /\ con[c].status = 500
        /\ con[c].diag = "saved"

\* src is made of some text, the icon's name, and some text.
Names(icon, src) ==
    \E i \in 0..Len(src) :
        /\ i + Len(icon) <= Len(src)
        /\ src = SubSeq(src, 1, i) \o icon
                    \o SubSeq(src, i + Len(icon) + 1, Len(src))

\* C11: the status of an icon src is one of the four values; it is UNKNOWN
\* exactly when the src names none of the three icons, it is the status of
\* an icon only when the src names that icon, and a src that names one icon
\* gets the status of that icon.
C11_IconStatus ==
    (call.fn = "map_status_from_src" /\ call.done)
    => LET src    == call.arg
           tick   == Names(<<"verify_", "tick_sml.png">>, src)
           orange == Names(<<"verify_", "orange_sml.png">>, src)
           cross  == Names(<<"verify_", "cross_sml.png">>, src)
       IN /\ call.out \in {"IN BUSINESS", "IN DEREGISTRATION PROCESS",
                           "FINAL DEREGISTRATION", "UNKNOWN"}
          /\ call.out = "UNKNOWN" <=> ~(tick \/ orange \/ cross)
          /\ call.out = "IN BUSINESS" => tick
          /\ call.out = "IN DEREGISTRATION PROCESS" => orange
          /\ call.out = "FINAL DEREGISTRATION" => cross
          /\ (tick /\ ~orange /\ ~cross) => call.out = "IN BUSINESS"
          /\ (orange /\ ~tick /\ ~cross)
             => call.out = "IN DEREGISTRATION PROCESS"
          /\ (cross /\ ~tick /\ ~orange)
             => call.out = "FINAL DEREGISTRATION"

\* C11 witness: the cross icon, named inside a longer src.
C11_Witness ==
    /\ call.fn = "map_status_from_src"
    /\ call.done
    /\ call.out = "FINAL DEREGISTRATION"
    /\ Len(call.arg) > 2

\* The positions of the separators in a date text.
Slashes(t) == {k \in 1..Len(t) : t[k] = "/"}

\* q is p with zeros on its left up to two characters.
LeftPadded(p, q) ==
    /\ Len(q) = IF Len(p) < 2 THEN 2 ELSE Len(p)
    /\ \A k \in 1..Len(q) :
          q[k] = IF k <= Len(q) - Len(p) THEN "0" ELSE p[k - (Len(q) - Len(p))]

LoneSign(p) == Len(p) = 1 /\ p[1] \in {"+", "-"}

C13_SentinelIsNull ==
    (call.fn = "null_if_sentinel" /\ call.done)
    => LET text == call.arg.text
           mark == IF call.arg.field = "complianceNotice"
                   THEN <<"NONE">> ELSE <<"NOT AVAILABLE">>
       IN /\ call.out.isNone <=> IsTrimOf(mark, text)
          /\ ~call.out.isNone => IsTrimOf(call.out.text, text)

\* C13 witness: a sentinel with whitespace around it gives null, and the
\* other field's sentinel does not.
C13_Witness ==
    /\ call.fn = "null_if_sentinel"
    /\ call.done
    /\ call.arg.field = "uifRegNumber"
    /\ call.arg.text = <<" ", "NOT AVAILABLE", " ">>
    /\ call.out.isNone

\* C14: in a /search that returned its data, every section whose block
\* raised is in its default shape, holding no rows or fields extracted
\* before the exception.
C14_RaisedSectionIsDefault ==
    \A s \in SeaIds :
        (sea[s].pc = "done" /\ sea[s].body = "data")
        => /\ sea[s].status = 200
           /\ sea[s].success = "true"
           /\ \A name \in sea[s].raised : sea[s].secs[name] = "default"

\* The steps of /connect inside its try block.
ConnectTrySteps == {"goto", "wait_form", "submit", "check_error",
                    "wait_redirect", "scrape"}

\* C15: a /connect whose try block raised anything but the banner's
\* ValueError attempts the capture while tab and browser are still open,
\* then closes tab, browser and driver and fails with 500, registering
\* nothing; whether the capture was saved or failed changes none of this.
C15_CaptureThenTeardown ==
    \A c \in ConnIds :
        /\ con[c].pc = "diag"
           => /\ con[c].page = "open"
              /\ browser[c] = "open"
              /\ con[c].exc \in {"timeout", "error"}
        /\ (con[c].pc = "teardown" /\ con[c].exc # "ValueError")
           => /\ con[c].diag \in {"saved", "failed"}
              /\ browser[c] = "open"
        /\ (con[c].pc = "done" /\ con[c].at \in ConnectTrySteps
              /\ con[c].exc \in {"timeout", "error"})
           => /\ con[c].handled
              /\ con[c].diag \in {"saved", "failed"}
              /\ con[c].status = 500
              /\ con[c].body = "Login/navigation error"
              /\ con[c].page = "closed"
              /\ browser[c] = "closed"
              /\ context[c] = "closed"
              /\ pw[c] = "stopped"
              /\ c \notin DOMAIN sessions

\* C15 witness: the scrape raised, the capture failed, and the request
\* ended with 500 and everything closed.
C15_Witness ==
    \E c \in ConnIds :
        /\ con[c].pc = "done"
        /\ con[c].at = "scrape"
        /\ con[c].diag = "failed"
        /\ con[c].status = 500
        /\ browser[c] = "closed"
        /\ pw[c] = "stopped"

\* C16: a timeout of the wait for the search-box panel ends the request
\* with 500 after a search_timeout capture; a timeout of the wait for the
\* enabled input raises nothing: the request goes on to fill the input and
\* from there to the click.
C16_FatalAndSoftWait ==
    /\ [](\A s \in SeaIds :
             /\ (sea[s].pc = "done" /\ sea[s].at = "wait_box"
                   /\ sea[s].exc = "timeout")
                => /\ sea[s].status = 500
                   /\ sea[s].handled
                   /\ sea[s].body = "Search operation timed out"
                   /\ sea[s].phase = "search_timeout"
                   /\ sea[s].diag \in {"saved", "failed"}
                   /\ sea[s].page = "closed"
             /\ ~(sea[s].at = "wait_enabled" /\ sea[s].exc = "timeout")
             /\ sea[s].soft => sea[s].pc = "fill" /\ sea[s].exc = "none")
    /\ [][\A s \in SeaIds :
             (sea[s].soft /\ sea'[s] # sea[s])
             => \/ sea'[s].pc = "click"
                \/ sea'[s].pc = "raised" /\ sea'[s].at = "fill"]_vars

\* C16 witness: the wait for the enabled input timed out and the request
\* is about to fill the input.
C16_Witness ==
    \E s \in SeaIds :
        /\ sea[s].soft
        /\ sea[s].pc = "fill"
        /\ sea[s].page = "open"

\* C17: a missing search input or search button ends the request with 400
\* and the message of the element, the tab closed and nothing captured;
\* after the ValueError the request takes no step but that of its handler.
C17_MissingElement ==
    /\ [](\A s \in SeaIds :
             sea[s].exc = "ValueError"
             => /\ sea[s].at \in {"fill", "click"}
                /\ sea[s].pc \in {"raised", "done"}
                /\ sea[s].diag = "none"
                /\ sea[s].phase = "none"
                /\ sea[s].pc = "done"
                   => /\ sea[s].status = 400
                      /\ sea[s].handled
                      /\ sea[s].page = "closed"
                      /\ sea[s].body =
                            IF sea[s].at = "fill"
                            THEN "Could not find search input field"
                            ELSE "Could not find search button")
    /\ [][\A s \in SeaIds :
             /\ (sea[s].exc # "ValueError" /\ sea'[s].exc = "ValueError")
                => /\ sea[s].pc \in {"fill", "click"}
                   /\ sea'[s].pc = "raised"
             /\ (sea[s].exc = "ValueError" /\ sea'[s] # sea[s])
                => \/ sea[s].pc = "raised" /\ sea'[s].pc = "done"
                   \/ sea[s].pc = "done" /\ sea'[s] = SeaIdle]_vars

\* C17 witness: the search button was missing.
C17_Witness ==
    \E s \in SeaIds :
        /\ sea[s].pc = "done"
        /\ sea[s].exc = "ValueError"
        /\ sea[s].at = "click"
        /\ sea[s].status = 400

\* C18: a /connect whose enterprise table has a row with missing cells, or
\* a status cell without an icon, succeeds and registers its session.
C18_MalformedRowIsSkipped ==
    \A c \in ConnIds :
        (con[c].pc = "done"
           /\ \E k \in 1..Len(con[c].table) : con[c].table[k] # "good")
        => /\ con[c].status = 200
           /\ c \in DOMAIN sessions

\* C19: the registry holds a token only for a /connect that returned it,
\* with the resources of that /connect; a token is added exactly by the
\* step that completes its /connect with success, after the login tab was
\* closed and when it is not yet registered; it is removed exactly by the
\* step that completes a /disconnect on it with success:true; no other
\* step changes an entry.
C19_Registry ==
    /\ [](\A t \in DOMAIN sessions :
             /\ Issued(t)
             /\ sessions[t] = [pw |-> t, browser |-> t, context |-> t])
    /\ [](\A t \in ConnIds :
             (Issued(t) /\ t \notin DOMAIN sessions)
             => browser[t] = "closed" /\ pw[t] = "stopped")
    /\ [][\A t \in ConnIds :
             /\ (t \notin DOMAIN sessions /\ t \in DOMAIN sessions')
                <=> (con[t].status # 200 /\ con'[t].status = 200)
             /\ (t \notin DOMAIN sessions /\ t \in DOMAIN sessions')
                => /\ con[t].pc = "register"
                   /\ con[t].page = "closed"
                   /\ con'[t].pc = "done"
             /\ (t \in DOMAIN sessions /\ t \notin DOMAIN sessions')
                <=> \E d \in DisIds :
                       /\ dis[d].token = t
                       /\ dis[d].success # "true"
                       /\ dis'[d].success = "true"
             /\ (t \in DOMAIN sessions /\ t \in DOMAIN sessions')
                => sessions'[t] = sessions[t]]_vars

\* C19 witness: of two tokens returned, one has been disconnected and the
\* other is registered.
C19_Witness ==
    \E t1, t2 \in ConnIds :
        /\ Issued(t1)
        /\ t1 \notin DOMAIN sessions
        /\ Issued(t2)
        /\ t2 \in DOMAIN sessions

\* C20: when two /disconnect requests that both found the same token
\* registered have both returned, neither has raised, at most one has
\* returned success:true, and the token is no longer registered.
C20_TwoDisconnects ==
    \A d1, d2 \in DisIds :
        (d1 # d2 /\ dis[d1].pc = "done" /\ dis[d2].pc = "done"
           /\ dis[d1].found /\ dis[d2].found
           /\ dis[d1].token = dis[d2].token)
        => /\ dis[d1].handled /\ dis[d2].handled
           /\ dis[d1].status = 200 /\ dis[d2].status = 200
           /\ ~(dis[d1].success = "true" /\ dis[d2].success = "true")
           /\ dis[d1].token \notin DOMAIN sessions

\* C21: with the requests interleaved at their awaits, a step of a /search
\* changes that request alone: it opens, drives or closes no tab of
\* another /search and leaves every context, browser and driver and the
\* registry as they are; a tab is opened by the request that holds it, in
\* the context registered for its token, so that requests on different
\* tokens hold tabs in different contexts.
C21_SearchesKeepApart ==
    /\ [](\A s1, s2 \in SeaIds :
             /\ sea[s1].page # "none"
                => /\ Issued(sea[s1].token)
                   /\ sea[s1].ctx = sea[s1].token
             /\ (sea[s1].page # "none" /\ sea[s2].page # "none"
                   /\ sea[s1].token # sea[s2].token)
                => sea[s1].ctx # sea[s2].ctx)
    /\ [][\A s \in SeaIds :
             /\ sea'[s] # sea[s]
                => /\ \A o \in SeaIds \ {s} : sea'[o] = sea[o]
                   /\ UNCHANGED <<sessions, pw, browser, context, con, dis>>
             /\ (sea[s].page = "none" /\ sea'[s].page # "none")
                => /\ sea[s].pc = "new_page"
                   /\ sea'[s].page = "open"
                   /\ sea'[s].ctx = sea[s].ctx
             /\ (sea[s].page = "open" /\ sea'[s].page # "open")
                => /\ sea'[s].page = "closed"
                   /\ sea'[s].pc = "done"]_vars

\* C21 witness: two requests on the same token had their tabs open at the
\* same time; one has closed its tab and has its response, the tab of the
\* other is still open.
C21_Witness ==
    \E s1, s2 \in SeaIds :
        /\ s1 # s2
        /\ sea[s1].token = sea[s2].token
        /\ sea[s1].pc = "done"
        /\ sea[s1].status = 200
        /\ sea[s1].page = "closed"
        /\ sea[s2].page = "open"
        /\ sea[s2].pc \notin {"new_page", "goto"}

====
